---- MODULE Spec2Model ----
(***************************************************************************)
(* A model of the proxy dialers of lssh's sshlib (src/unnamed/part_000):   *)
(* the Proxy factory, the ContextDialer wrapper, the HTTP CONNECT dialer,  *)
(* the SOCKS5 adapter and the NetPipe command tunnel; and of the symlink    *)
(* command of lssh's sftp shell (src/sftp/cmd_symlink.go).                 *)
(*                                                                         *)
(* Go strings are modelled as sequences of tokens, so that building the    *)
(* proxy URL (concatenation) and url.Parse (splitting) are computed.       *)
(* A panic ends the whole program: crashed names its site and disables     *)
(* every action.                                                           *)
(***************************************************************************)
EXTENDS Integers, Sequences, FiniteSets, TLC

\* ------------------------------------------------------------------ bounds

\* Number of dial calls issued (concurrently) on the one dialer.
NumCalls == 2

\* Capacity of connChan and errChan: make(chan ..., 1).
ChanCap == 1

Calls == 1..NumCalls

\* Number of servers the sftp shell is connected to.
MaxServers == 2

Servers == 1..MaxServers

\* ----------------------------------------------------------------- strings

Empty == << >>

\* Tokens that are runs of decimal digits.
Numeric == {"8080", "22", "12"}

\* Tokens url.Parse rejects inside a host or a userinfo.
InvalidInHost == {" "}

RECURSIVE LastIndex(_, _)
\* strings.LastIndex over tokens: 0 when absent.
LastIndex(s, t) ==
    IF s = Empty THEN 0
    ELSE IF s[Len(s)] = t THEN Len(s)
    ELSE LastIndex(SubSeq(s, 1, Len(s) - 1), t)

RECURSIVE FirstIndexFrom(_, _, _)
FirstIndexFrom(s, t, i) ==
    IF i > Len(s) THEN 0
    ELSE IF s[i] = t THEN i
    ELSE FirstIndexFrom(s, t, i + 1)

\* strings.Index over tokens: 0 when absent.
FirstIndex(s, t) == FirstIndexFrom(s, t, 1)

Toks(s) == {s[i] : i \in 1..Len(s)}

\* No user information in a URL (uri.User == nil).
NoUser == [set |-> FALSE, username |-> Empty, password |-> Empty]

\* url.Parse failed: the *url.URL is nil.
NilURL == [ok |-> FALSE, Scheme |-> "", User |-> NoUser, Host |-> Empty]

\* validOptionalPort: the part of the host from its last colon on is a colon
\* followed by digits only.
ValidOptionalPort(hostport) ==
    LET colon == LastIndex(hostport, ":")
    IN  colon = 0 \/ Toks(SubSeq(hostport, colon + 1, Len(hostport))) \subseteq Numeric

\* url.Parse of scheme "://" authority path: the authority ends at the first
\* slash, and what follows it is the path (no query or fragment tokens).
UrlParse(s) ==
    LET sep == FirstIndex(s, "://")
        rest == SubSeq(s, sep + 1, Len(s))
        slash == FirstIndex(rest, "/")
        authority == IF slash = 0 THEN rest ELSE SubSeq(rest, 1, slash - 1)
        at == LastIndex(authority, "@")
        userinfo == SubSeq(authority, 1, at - 1)
        hostport == SubSeq(authority, at + 1, Len(authority))
        colon == FirstIndex(userinfo, ":")
        user ==
            IF at = 0 THEN NoUser
            ELSE IF colon = 0
                 THEN [set |-> TRUE, username |-> userinfo, password |-> Empty]
                 ELSE [set |-> TRUE,
                       username |-> SubSeq(userinfo, 1, colon - 1),
                       password |-> SubSeq(userinfo, colon + 1, Len(userinfo))]
    IN  IF sep # 2 THEN NilURL
        ELSE IF Toks(userinfo) \cap InvalidInHost # {} THEN NilURL
        ELSE IF Toks(hostport) \cap InvalidInHost # {} THEN NilURL
        ELSE IF ~ValidOptionalPort(hostport) THEN NilURL
        ELSE [ok |-> TRUE, Scheme |-> s[1], User |-> user, Host |-> hostport]

\* net.JoinHostPort: a host holding a colon is bracketed.
JoinHostPort(host, port) ==
    IF ":" \in Toks(host)
    THEN <<"[">> \o host \o <<"]", ":">> \o port
    ELSE host \o <<":">> \o port

\* ----------------------------------------------------------------- dialers

\* The nil proxy.Dialer.
NilDialer == [kind |-> "nil"]

\* The configured Forwarder ignored: always proxy.Direct.
ResolveForwarderDirect(p) == "Direct"

\* proxy.Direct, or the configured Forwarder.
ResolveForwarder(p) == IF p.Forwarder THEN "Forwarder" ELSE "Direct"

\* A nil *proxy.Auth.
NilAuth == [set |-> FALSE, User |-> Empty, Password |-> Empty]

\* What a constructor yields: it panics, or returns (dialer, err).
Panic(site) == [panic |-> site, dialer |-> NilDialer, err |-> "none"]
Return(d, e) == [panic |-> "none", dialer |-> d, err |-> e]

newHttpProxy(uri, forward) ==
    [kind |-> "httpProxy",
     host |-> uri.Host,
     haveAuth |-> uri.User.set,
     username |-> IF uri.User.set THEN uri.User.username ELSE Empty,
     password |-> IF uri.User.set THEN uri.User.password ELSE Empty,
     forward |-> forward]

\* proxy.FromURL for the registered schemes http and https: it reads u.User
\* first, which panics on a nil u.
FromURL(u, forward) ==
    IF ~u.ok THEN Panic("nilURL")
    ELSE IF u.Scheme \in {"http", "https"} THEN Return(newHttpProxy(u, forward), "none")
    ELSE Return(NilDialer, "unknown scheme")

ProxyURL(p) ==
    LET base == IF p.User # Empty /\ p.Password # Empty
                THEN <<p.Type, "://">> \o p.User \o <<":">> \o p.Password \o <<"@">> \o p.Addr
                ELSE <<p.Type, "://">> \o p.Addr
    IN  IF p.Port # Empty THEN base \o <<":">> \o p.Port ELSE base

CreateHttpProxyDialer(p) == FromURL(UrlParse(ProxyURL(p)), ResolveForwarder(p))

\* The auth pointer is never allocated: assigning through it panics.
CreateSocks5ProxyDialer(p) ==
    IF p.User # Empty /\ p.Password # Empty THEN Panic("nilAuth")
    ELSE Return([kind |-> "socks5",
                 network |-> "tcp",
                 addr |-> JoinHostPort(p.Addr, p.Port),
                 auth |-> NilAuth,
                 forward |-> ResolveForwarder(p)], "none")

CreateProxyCommandProxyDialer(p) ==
    Return([kind |-> "NetPipe", Command |-> p.Command], "none")

\* The switch with the socks case missing: socks falls through to no dialer
\* and socks5 to the HTTP CONNECT dialer.
SelectDialerMixed(p) ==
    IF p.Type \in {"http", "https", "socks5"} THEN CreateHttpProxyDialer(p)
    ELSE IF p.Type = "command" THEN CreateProxyCommandProxyDialer(p)
    ELSE Return(NilDialer, "none")

\* The switch on p.Type; no default case.
SelectDialer(p) ==
    IF p.Type \in {"http", "https"} THEN CreateHttpProxyDialer(p)
    ELSE IF p.Type \in {"socks", "socks5"} THEN CreateSocks5ProxyDialer(p)
    ELSE IF p.Type = "command" THEN CreateProxyCommandProxyDialer(p)
    ELSE Return(NilDialer, "none")

\* The ContextDialer built around whatever the switch produced.
ContextDialer(d) == [wrapper |-> "ContextDialer", Dialer |-> d]

\* The type assertion failing for every dialer.
HasDialContextNever(d) == FALSE

\* The wrapped dialer has a DialContext method of its own.
HasDialContext(d) == d.kind \in {"socks5", "NetPipe"}

\* --------------------------------------------------------- configurations

NetworkConfigs(types) ==
    [Type : types,
     Addr : {<<"proxy">>, <<" ">>},
     Port : {Empty, <<"8080">>, <<"x">>},
     User : {Empty, <<"u">>},
     Password : {Empty, <<"pw">>},
     Command : {""},
     Forwarder : BOOLEAN]

CommandConfigs ==
    [Type : {"command"}, Addr : {Empty}, Port : {Empty}, User : {Empty},
     Password : {Empty}, Command : {"nc %h %p", ""}, Forwarder : {FALSE}]

UnknownConfigs ==
    [Type : {"ftp", ""}, Addr : {<<"proxy">>}, Port : {<<"8080">>}, User : {Empty},
     Password : {Empty}, Command : {""}, Forwarder : {FALSE}]

\* An HTTP proxy whose password holds a slash.
SlashConfigs ==
    [Type : {"http"}, Addr : {<<"proxy">>}, Port : {<<"8080">>}, User : {<<"u">>},
     Password : {<<"12", "/", "ab">>}, Command : {""}, Forwarder : {FALSE}]

Configs ==
    NetworkConfigs({"http", "https", "socks", "socks5"}) \cup CommandConfigs
        \cup UnknownConfigs \cup SlashConfigs

\* The configurations of the network dialers with a well-formed address: one
\* per variant, with and without credentials and forwarder, and one of an
\* unrecognized type.
NetConfigs ==
    {q \in Configs :
        /\ q.Type \in {"http", "socks5", "ftp"}
        /\ q.Addr = <<"proxy">>
        /\ q.Port = <<"8080">>
        /\ (q.User = Empty) = (q.Password = Empty)}

\* Of those, the ones without credentials and without forwarder: all the
\* wrapper's race with the context depends on is the variant.
PlainConfigs == {q \in NetConfigs : q.User = Empty /\ ~q.Forwarder}

\* One plain configuration per variant: HTTP CONNECT, SOCKS5, the command
\* tunnel and an unrecognized type.
VariantConfigs == PlainConfigs \cup {q \in CommandConfigs : q.Command # ""}

\* ------------------------------------------------------------------ values

NoConn == [kind |-> "none", id |-> 0]
SockConn(c) == [kind |-> "sock", id |-> c]
PipeConn(c) == [kind |-> "pipe", id |-> c]

NoErr == [kind |-> "none", code |-> 0]
Err(k) == [kind |-> k, code |-> 0]

\* fmt.Errorf("... StatusCode [%d]", resp.StatusCode)
StatusErr(code) == [kind |-> "status", code |-> code]

\* ctx.Err()
CtxErr == Err("context")

Result(conn, err) == [conn |-> conn, err |-> err]
NoResult == Result(NoConn, NoErr)

\* Destination addresses handed to a dial; the second has a non-numeric port,
\* which url.Parse rejects.
Targets == {<<"host", ":", "22">>, <<"host", ":", "x">>}

\* What http.ReadResponse can yield: no response (a parse error), or a response
\* with one of these status codes.
StatusCodes == {200, 204, 403}

\* A nil *http.Response, and a parsed one whose body is still open.
NilResp == [parsed |-> FALSE, StatusCode |-> 0, body |-> "none"]
Resp(code) == [parsed |-> TRUE, StatusCode |-> code, body |-> "open"]
Responses == {NilResp} \cup {Resp(code) : code \in StatusCodes}

NoRequest == [method |-> "", target |-> Empty, close |-> FALSE, auth |-> NilAuth,
              userAgent |-> ""]

\* An exec.Cmd; state "none" is a Cmd that does not exist yet, "created" and
\* "failed" have a nil Process, "running" and "exited" a non-nil one.
\* stdio is the pipe its Stdin and Stdout are wired to, startedBy the call whose
\* Start spawned its process, waited whether a Wait on it has returned.
NoCmd == [state |-> "none", stdio |-> 0, startedBy |-> 0, waited |-> FALSE]

\* Symlink has not been called.
NoLink == [called |-> FALSE, source |-> Empty, target |-> Empty]

\* ------------------------------------------------------------------- paths

\* filepath.IsAbs: the path starts with a slash.
IsAbs(path) == path # Empty /\ path[1] = "/"

RECURSIVE Clean(_)
\* filepath.Clean, for paths without dot elements: runs of slashes become one
\* slash and a trailing slash is dropped, except for the root.
Clean(path) ==
    IF Len(path) <= 1 THEN path
    ELSE IF path[1] = "/" /\ path[2] = "/" THEN Clean(Tail(path))
    ELSE IF Len(path) = 2 /\ path[2] = "/" THEN <<path[1]>>
    ELSE <<path[1]>> \o Clean(Tail(path))

\* filepath.Join of two elements: empty elements are ignored, the others are
\* joined by a slash and the result is cleaned.
Join(a, b) ==
    IF a = Empty THEN Clean(b)
    ELSE IF b = Empty THEN Clean(a)
    ELSE Clean(a \o <<"/">> \o b)

\* client.Pwd: the working directory on each server, all different.
Pwd(s) == <<"/", "home", "/", ToString(s)>>

\* The link names given to the command: one relative, one absolute.
LinkNames == {<<"t">>, <<"/", "t">>}

\* c.Args(): one, two or three arguments.
ArgLists ==
    {<<<<"s">>>>}
        \cup {<<<<"s">>, t>> : t \in LinkNames}
        \cup {<<<<"s">>, t, <<"x">>>> : t \in LinkNames}

\* What ExpandRemotePath yields: an error, or a list of paths of which the
\* first, relative or absolute, is used.
ExpandResults ==
    {[err |-> TRUE, first |-> Empty]}
        \cup {[err |-> FALSE, first |-> f] : f \in {<<"s">>, <<"/", "s">>}}

\* ------------------------------------------------------------------- state

VARIABLES
    callers,    \* how the callers issue dials: "concurrent" | "sequential" | "onebyone"
    p,          \* the Proxy configuration
    facPc,      \* "init" | "created": CreateProxyDialer has returned
    wrapper,    \* the ContextDialer CreateProxyDialer returned
    createErr,  \* the err CreateProxyDialer returned
    crashed,    \* "none", or the site of the panic that ended the program
    callPc,     \* per call: "idle" | "Dial" | "select" | "npSelect" | "native" | "returned"
    op,         \* per call: "none" | "Dial" | "DialContext"
    addr,       \* per call: the addr argument
    ctx,        \* per call: "live" | "cancelled"
    bgPc,       \* per call: the background goroutine, "none" | "run" | "done"
    dialPc,     \* per call: position of the wrapped dialer's blocking Dial
    dialRes,    \* per call: what that Dial returned
    connChan,   \* per call: the buffered channel of connections
    errChan,    \* per call: the buffered channel of errors
    ret,        \* per call: what the call returned to its caller
    sock,       \* per call: the socket to the proxy, "none" | "open" | "closed"
    resp,       \* per call: the response http.ReadResponse returned
    req,        \* per call: the CONNECT request built
    wire,       \* per call: the request written to the socket
    fwdUsed,    \* per call: the dialer that reached the proxy
    pipeCli,    \* per call: client end of net.Pipe, "none" | "open" | "closed"
    pipeSrv,    \* per call: server end of net.Pipe
    watchPc,    \* per call: the exit watcher, "none" | "start" | "waiting" | "close" | "done"
    watchCmd,   \* per call: the Cmd the watcher's Wait is blocked on
    npCmd,      \* the NetPipe's Cmd field: 0 (nil) or the call that created the Cmd
    cmd,        \* the Cmd objects, by creating call
    killedBy    \* per Cmd: the call whose cancellation killed its process, or 0

VARIABLES
    args,       \* symlink: c.Args(), the arguments of the command
    targetmap,  \* symlink: the servers createTargetMap selected
    symPc,      \* symlink: the action, "idle" | "spawn" | "wait" | "returned"
    target,     \* symlink: the variable target, shared by every task
    taskPc,     \* symlink, per server: position of its task (goroutine)
    source,     \* symlink, per server: the task's own variable source
    linked,     \* symlink, per server: the arguments of its Symlink call
    outcome,    \* symlink, per server: how its task ended
    sent,       \* symlink, per server: values the task has sent on exit
    received    \* symlink: values the action has received from exit

callVars == <<callPc, op, addr, ctx, bgPc, dialPc, dialRes, connChan, errChan, ret>>
httpVars == <<sock, resp, req, wire, fwdUsed>>
pipeVars == <<pipeCli, pipeSrv, watchPc, watchCmd, npCmd, cmd, killedBy>>
facVars == <<p, facPc, wrapper, createErr>>
dialVars == <<callers, facVars, crashed, callVars, httpVars, pipeVars>>
symVars == <<args, targetmap, symPc, target, taskPc, source, linked, outcome, sent, received>>
vars == <<dialVars, symVars>>

InitWith(mode, configs) ==
    /\ callers = mode
    /\ p \in configs
    /\ facPc = "init"
    /\ wrapper = ContextDialer(NilDialer)
    /\ createErr = "none"
    /\ crashed = "none"
    /\ callPc = [c \in Calls |-> "idle"]
    /\ op = [c \in Calls |-> "none"]
    /\ addr = [c \in Calls |-> Empty]
    /\ ctx = [c \in Calls |-> "live"]
    /\ bgPc = [c \in Calls |-> "none"]
    /\ dialPc = [c \in Calls |-> "none"]
    /\ dialRes = [c \in Calls |-> NoResult]
    /\ connChan = [c \in Calls |-> << >>]
    /\ errChan = [c \in Calls |-> << >>]
    /\ ret = [c \in Calls |-> NoResult]
    /\ sock = [c \in Calls |-> "none"]
    /\ resp = [c \in Calls |-> NilResp]
    /\ req = [c \in Calls |-> NoRequest]
    /\ wire = [c \in Calls |-> NoRequest]
    /\ fwdUsed = [c \in Calls |-> "none"]
    /\ pipeCli = [c \in Calls |-> "none"]
    /\ pipeSrv = [c \in Calls |-> "none"]
    /\ watchPc = [c \in Calls |-> "none"]
    /\ watchCmd = [c \in Calls |-> 0]
    /\ npCmd = 0
    /\ cmd = [c \in Calls |-> NoCmd]
    /\ killedBy = [c \in Calls |-> 0]
    /\ args = << >>
    /\ targetmap = {}
    /\ symPc = "idle"
    /\ target = Empty
    /\ taskPc = [s \in Servers |-> "none"]
    /\ source = [s \in Servers |-> Empty]
    /\ linked = [s \in Servers |-> NoLink]
    /\ outcome = [s \in Servers |-> "none"]
    /\ sent = [s \in Servers |-> 0]
    /\ received = 0

\* Every configuration; dials may be issued while earlier ones are pending.
Init == InitWith("concurrent", Configs)

\* The network dialers; each dial is issued after the one before it has
\* returned.
NetInit == InitWith("sequential", NetConfigs)

PlainNetInit == InitWith("sequential", PlainConfigs)

\* Each dial is issued after everything the one before it started is over.
VariantInit == InitWith("onebyone", VariantConfigs)

\* The sftp shell: its connections are up, no command has been entered.
SymInit == InitWith("onebyone", {q \in CommandConfigs : q.Command # ""})

Running == crashed = "none"

\* ----------------------------------------------------------------- factory

CreateProxyDialer ==
    /\ Running
    /\ facPc = "init"
    /\ LET r == SelectDialer(p)
       IN  IF r.panic # "none"
           THEN /\ crashed' = r.panic
                /\ UNCHANGED facVars
           ELSE /\ wrapper' = ContextDialer(r.dialer)
                /\ createErr' = r.err
                /\ facPc' = "created"
                /\ UNCHANGED <<p, crashed>>
    /\ UNCHANGED <<symVars, callers, callVars, httpVars, pipeVars>>

\* ----------------------------------------------------------------- wrapper

\* Nothing of dial d is left running: the call has returned, and its goroutine,
\* its blocking dial and its exit watcher are over.
Quiet(d) ==
    /\ callPc[d] = "returned"
    /\ bgPc[d] # "run"
    /\ dialPc[d] \in {"none", "done"}
    /\ watchPc[d] \in {"none", "done"}

\* Calls are numbered in the order they are issued.
MayStart(c) ==
    /\ Running
    /\ facPc = "created"
    /\ callPc[c] = "idle"
    /\ \A d \in Calls : d < c =>
            CASE callers = "sequential" -> callPc[d] = "returned"
              [] callers = "onebyone" -> Quiet(d)
              [] OTHER -> callPc[d] # "idle"

\* ContextDialer.Dial: the caller itself runs c.Dialer.Dial.
CallDial(c) ==
    /\ MayStart(c)
    /\ \E a \in Targets :
        /\ addr' = [addr EXCEPT ![c] = a]
        /\ op' = [op EXCEPT ![c] = "Dial"]
        /\ callPc' = [callPc EXCEPT ![c] = "Dial"]
        /\ dialPc' = [dialPc EXCEPT ![c] = "call"]
    /\ UNCHANGED <<symVars, callers, facVars, crashed, ctx, bgPc, dialRes, connChan, errChan, ret,
                   httpVars, pipeVars>>

\* ContextDialer.DialContext: delegate to a native DialContext, else make the
\* two channels, start the goroutine and go to the select.
CallDialContext(c) ==
    /\ MayStart(c)
    /\ \E a \in Targets, cx \in {"live", "cancelled"} :
        /\ addr' = [addr EXCEPT ![c] = a]
        /\ ctx' = [ctx EXCEPT ![c] = cx]
        /\ op' = [op EXCEPT ![c] = "DialContext"]
        /\ IF wrapper.Dialer.kind = "socks5"
           THEN /\ callPc' = [callPc EXCEPT ![c] = "native"]
                /\ UNCHANGED <<bgPc, dialPc>>
           ELSE /\ callPc' = [callPc EXCEPT ![c] =
                        IF HasDialContext(wrapper.Dialer) THEN "npSelect" ELSE "select"]
                /\ bgPc' = [bgPc EXCEPT ![c] = "run"]
                /\ dialPc' = [dialPc EXCEPT ![c] = "call"]
    /\ UNCHANGED <<symVars, callers, facVars, crashed, dialRes, connChan, errChan, ret, httpVars, pipeVars>>

\* The context of a pending cancellable dial is cancelled (or times out).
Cancel(c) ==
    /\ Running
    /\ callPc[c] \in {"select", "npSelect", "native"}
    /\ ctx[c] = "live"
    /\ ctx' = [ctx EXCEPT ![c] = "cancelled"]
    /\ UNCHANGED <<symVars, callers, facVars, crashed, callPc, op, addr, bgPc, dialPc, dialRes, connChan,
                   errChan, ret, httpVars, pipeVars>>

\* The first step of the wrapped dialer's Dial (the method call itself): a nil
\* Dialer panics.  NetPipe.Dial starts by clearing network and addr.
FirstStep(d) ==
    CASE d.kind = "httpProxy" -> "forward"
      [] d.kind = "socks5" -> "socks"
      [] d.kind = "NetPipe" -> "pipe"

DialerDial(c) ==
    /\ Running
    /\ dialPc[c] = "call"
    /\ IF wrapper.Dialer.kind = "nil"
       THEN /\ crashed' = "nilDialer"
            /\ UNCHANGED <<dialPc, addr>>
       ELSE /\ dialPc' = [dialPc EXCEPT ![c] = FirstStep(wrapper.Dialer)]
            /\ addr' = [addr EXCEPT ![c] =
                    IF wrapper.Dialer.kind = "NetPipe" THEN Empty ELSE addr[c]]
            /\ UNCHANGED crashed
    /\ UNCHANGED <<symVars, callers, facVars, callPc, op, ctx, bgPc, dialRes, connChan, errChan, ret,
                   httpVars, pipeVars>>

\* ContextDialer.Dial returns what c.Dialer.Dial returned.
DialReturn(c) ==
    /\ Running
    /\ callPc[c] = "Dial"
    /\ dialPc[c] = "done"
    /\ ret' = [ret EXCEPT ![c] = dialRes[c]]
    /\ callPc' = [callPc EXCEPT ![c] = "returned"]
    /\ UNCHANGED <<symVars, callers, facVars, crashed, op, addr, ctx, bgPc, dialPc, dialRes, connChan,
                   errChan, httpVars, pipeVars>>

\* The send on channels made without a buffer: it completes only while the
\* caller is still at its select to take the value.
BgDeliverUnbuffered(c) ==
    /\ Running
    /\ bgPc[c] = "run"
    /\ dialPc[c] = "done"
    /\ callPc[c] \in {"select", "npSelect"}
    /\ IF dialRes[c].err # NoErr
       THEN /\ errChan' = [errChan EXCEPT ![c] = Append(@, dialRes[c].err)]
            /\ UNCHANGED connChan
       ELSE /\ connChan' = [connChan EXCEPT ![c] = Append(@, dialRes[c].conn)]
            /\ UNCHANGED errChan
    /\ bgPc' = [bgPc EXCEPT ![c] = "done"]
    /\ UNCHANGED <<symVars, callers, facVars, crashed, callPc, op, addr, ctx, dialPc, dialRes, ret,
                   httpVars, pipeVars>>

\* The goroutine of either DialContext sends its result: the error on errChan
\* when there is one, else the connection on connChan.
BgDeliver(c) ==
    /\ Running
    /\ bgPc[c] = "run"
    /\ dialPc[c] = "done"
    /\ IF dialRes[c].err # NoErr
       THEN /\ Len(errChan[c]) < ChanCap
            /\ errChan' = [errChan EXCEPT ![c] = Append(@, dialRes[c].err)]
            /\ UNCHANGED connChan
       ELSE /\ Len(connChan[c]) < ChanCap
            /\ connChan' = [connChan EXCEPT ![c] = Append(@, dialRes[c].conn)]
            /\ UNCHANGED errChan
    /\ bgPc' = [bgPc EXCEPT ![c] = "done"]
    /\ UNCHANGED <<symVars, callers, facVars, crashed, callPc, op, addr, ctx, dialPc, dialRes, ret,
                   httpVars, pipeVars>>

\* The select of ContextDialer.DialContext: one of the ready cases, any of them.
SelectConn(c) ==
    /\ connChan[c] # << >>
    /\ ret' = [ret EXCEPT ![c] = Result(Head(connChan[c]), NoErr)]
    /\ connChan' = [connChan EXCEPT ![c] = Tail(@)]
    /\ UNCHANGED errChan

SelectErr(c) ==
    /\ errChan[c] # << >>
    /\ ret' = [ret EXCEPT ![c] = Result(NoConn, Head(errChan[c]))]
    /\ errChan' = [errChan EXCEPT ![c] = Tail(@)]
    /\ UNCHANGED connChan

\* The cancellation case returning no error at all.
SelectDoneNoErr(c) ==
    /\ ctx[c] = "cancelled"
    /\ ret' = [ret EXCEPT ![c] = Result(NoConn, NoErr)]
    /\ UNCHANGED <<connChan, errChan>>

SelectDone(c) ==
    /\ ctx[c] = "cancelled"
    /\ ret' = [ret EXCEPT ![c] = Result(NoConn, CtxErr)]
    /\ UNCHANGED <<connChan, errChan>>

Select(c) ==
    /\ Running
    /\ callPc[c] = "select"
    /\ (SelectConn(c) \/ SelectErr(c) \/ SelectDone(c))
    /\ callPc' = [callPc EXCEPT ![c] = "returned"]
    /\ UNCHANGED <<symVars, callers, facVars, crashed, op, addr, ctx, bgPc, dialPc, dialRes, httpVars,
                   pipeVars>>

\* ------------------------------------------------------------ HTTP CONNECT

\* A looser test: any 2xx status taken for success.
StatusAcceptedAny2xx(code) == code \in 200..299

\* resp.StatusCode != 200 is the failure test.
StatusAccepted(code) == code = 200

\* The request httpProxy.Dial builds: CONNECT for reqURL.String() with the
\* scheme cleared, Basic authentication when haveAuth, and the User-Agent.
BuildRequest(d, reqURL) ==
    [method |-> "CONNECT",
     target |-> <<"//">> \o reqURL.Host,
     close |-> FALSE,
     auth |-> IF d.haveAuth
              THEN [set |-> TRUE, User |-> d.username, Password |-> d.password]
              ELSE NilAuth,
     userAgent |-> "Poweredby Golang"]

\* The blocking Dial ends: it returns (conn, err).
DialEnds(c, conn, err) ==
    /\ dialRes' = [dialRes EXCEPT ![c] = Result(conn, err)]
    /\ dialPc' = [dialPc EXCEPT ![c] = "done"]

\* c, err := s.forward.Dial("tcp", s.host)
HttpForward(c) ==
    /\ Running
    /\ dialPc[c] = "forward"
    /\ fwdUsed' = [fwdUsed EXCEPT ![c] = wrapper.Dialer.forward]
    /\ \E ok \in BOOLEAN :
        IF ok
        THEN /\ sock' = [sock EXCEPT ![c] = "open"]
             /\ dialPc' = [dialPc EXCEPT ![c] = "parseTarget"]
             /\ UNCHANGED dialRes
        ELSE /\ DialEnds(c, NoConn, Err("connect"))
             /\ UNCHANGED sock
    /\ UNCHANGED <<symVars, callers, facVars, crashed, callPc, op, addr, ctx, bgPc, connChan, errChan, ret,
                   resp, req, wire, pipeVars>>

\* reqURL, err := url.Parse("http://" + addr)
HttpParseTarget(c) ==
    /\ Running
    /\ dialPc[c] = "parseTarget"
    /\ IF UrlParse(<<"http", "://">> \o addr[c]).ok
       THEN /\ dialPc' = [dialPc EXCEPT ![c] = "newRequest"]
            /\ UNCHANGED <<dialRes, sock>>
       ELSE /\ sock' = [sock EXCEPT ![c] = "closed"]
            /\ DialEnds(c, NoConn, Err("parse"))
    /\ UNCHANGED <<symVars, callers, facVars, crashed, callPc, op, addr, ctx, bgPc, connChan, errChan, ret,
                   resp, req, wire, fwdUsed, pipeVars>>

\* req, err := http.NewRequest("CONNECT", reqURL.String(), nil), then the
\* headers.  Whether the library accepts the URL is its own choice.
HttpNewRequest(c) ==
    /\ Running
    /\ dialPc[c] = "newRequest"
    /\ \E ok \in BOOLEAN :
        IF ok
        THEN /\ req' = [req EXCEPT ![c] =
                    BuildRequest(wrapper.Dialer, UrlParse(<<"http", "://">> \o addr[c]))]
             /\ dialPc' = [dialPc EXCEPT ![c] = "write"]
             /\ UNCHANGED <<dialRes, sock>>
        ELSE /\ sock' = [sock EXCEPT ![c] = "closed"]
             /\ DialEnds(c, NoConn, Err("request"))
             /\ UNCHANGED req
    /\ UNCHANGED <<symVars, callers, facVars, crashed, callPc, op, addr, ctx, bgPc, connChan, errChan, ret,
                   resp, wire, fwdUsed, pipeVars>>

\* err = req.Write(c)
HttpWrite(c) ==
    /\ Running
    /\ dialPc[c] = "write"
    /\ \E ok \in BOOLEAN :
        IF ok
        THEN /\ wire' = [wire EXCEPT ![c] = req[c]]
             /\ dialPc' = [dialPc EXCEPT ![c] = "read"]
             /\ UNCHANGED <<dialRes, sock>>
        ELSE /\ sock' = [sock EXCEPT ![c] = "closed"]
             /\ DialEnds(c, NoConn, Err("write"))
             /\ UNCHANGED wire
    /\ UNCHANGED <<symVars, callers, facVars, crashed, callPc, op, addr, ctx, bgPc, connChan, errChan, ret,
                   resp, req, fwdUsed, pipeVars>>

\* resp, err := http.ReadResponse(...) and what follows.  On a parse error resp
\* is nil and the error branch calls resp.Body.Close() first: a panic.
HttpReadResponse(c) ==
    /\ Running
    /\ dialPc[c] = "read"
    /\ \E r \in Responses :
        IF ~r.parsed
        THEN /\ crashed' = "nilResp"
             /\ UNCHANGED <<resp, sock, dialRes, dialPc>>
        ELSE /\ resp' = [resp EXCEPT ![c] = [r EXCEPT !.body = "closed"]]
             /\ UNCHANGED crashed
             /\ IF StatusAccepted(r.StatusCode)
                THEN /\ DialEnds(c, SockConn(c), NoErr)
                     /\ UNCHANGED sock
                ELSE /\ sock' = [sock EXCEPT ![c] = "closed"]
                     /\ DialEnds(c, NoConn, StatusErr(r.StatusCode))
    /\ UNCHANGED <<symVars, callers, facVars, callPc, op, addr, ctx, bgPc, connChan, errChan, ret,
                   req, wire, fwdUsed, pipeVars>>

\* ------------------------------------------------------------------ SOCKS5

\* The blocking Dial of the external SOCKS5 client: it reaches the proxy
\* through its forward dialer and yields a connection or an error.
SocksDial(c) ==
    /\ Running
    /\ dialPc[c] = "socks"
    /\ fwdUsed' = [fwdUsed EXCEPT ![c] = wrapper.Dialer.forward]
    /\ \E ok \in BOOLEAN :
        IF ok
        THEN /\ sock' = [sock EXCEPT ![c] = "open"]
             /\ DialEnds(c, SockConn(c), NoErr)
        ELSE /\ DialEnds(c, NoConn, Err("socks"))
             /\ UNCHANGED sock
    /\ UNCHANGED <<symVars, callers, facVars, crashed, callPc, op, addr, ctx, bgPc, connChan, errChan, ret,
                   resp, req, wire, pipeVars>>

\* ContextDialer.DialContext delegated to the SOCKS5 client's own DialContext,
\* which returns its connection, its error, or the context's error.
SocksDialContext(c) ==
    /\ Running
    /\ callPc[c] = "native"
    /\ fwdUsed' = [fwdUsed EXCEPT ![c] = wrapper.Dialer.forward]
    /\ \E out \in {"conn", "err", "ctx"} :
        /\ out = "ctx" => ctx[c] = "cancelled"
        /\ sock' = [sock EXCEPT ![c] = IF out = "conn" THEN "open" ELSE @]
        /\ ret' = [ret EXCEPT ![c] =
                CASE out = "conn" -> Result(SockConn(c), NoErr)
                  [] out = "err" -> Result(NoConn, Err("socks"))
                  [] out = "ctx" -> Result(NoConn, CtxErr)]
    /\ callPc' = [callPc EXCEPT ![c] = "returned"]
    /\ UNCHANGED <<symVars, callers, facVars, crashed, op, addr, ctx, bgPc, dialPc, dialRes, connChan,
                   errChan, resp, req, wire, pipeVars>>

\* ----------------------------------------------------------- command tunnel

\* A Cmd whose Process field is nil: Start has not succeeded on it.
ProcessNil(k) == cmd[k].state \in {"created", "failed"}

\* con, srv := net.Pipe(); n.Cmd = exec.Command("sh", "-c", n.Command)
NpPipe(c) ==
    /\ Running
    /\ dialPc[c] = "pipe"
    /\ pipeCli' = [pipeCli EXCEPT ![c] = "open"]
    /\ pipeSrv' = [pipeSrv EXCEPT ![c] = "open"]
    /\ cmd' = [cmd EXCEPT ![c] = [NoCmd EXCEPT !.state = "created"]]
    /\ npCmd' = c
    /\ dialPc' = [dialPc EXCEPT ![c] = "setup"]
    /\ UNCHANGED <<symVars, callers, facVars, crashed, callPc, op, addr, ctx, bgPc, dialRes, connChan,
                   errChan, ret, httpVars, watchPc, watchCmd, killedBy>>

\* n.Cmd.Stdin = srv; n.Cmd.Stdout = srv: on whichever Cmd the field holds now.
NpSetup(c) ==
    /\ Running
    /\ dialPc[c] = "setup"
    /\ cmd' = [cmd EXCEPT ![npCmd].stdio = c]
    /\ dialPc' = [dialPc EXCEPT ![c] = "start"]
    /\ UNCHANGED <<symVars, callers, facVars, crashed, callPc, op, addr, ctx, bgPc, dialRes, connChan,
                   errChan, ret, httpVars, pipeCli, pipeSrv, watchPc, watchCmd, npCmd,
                   killedBy>>

\* err = n.Cmd.Start(), on whichever Cmd the field holds now; then the watcher
\* goroutine is started and (con, err) returned, whatever err is.
NpStart(c) ==
    /\ Running
    /\ dialPc[c] = "start"
    /\ IF ~ProcessNil(npCmd)
       THEN /\ DialEnds(c, PipeConn(c), Err("already started"))
            /\ UNCHANGED cmd
       ELSE \E ok \in BOOLEAN :
            IF ok
            THEN /\ cmd' = [cmd EXCEPT ![npCmd].state = "running",
                                       ![npCmd].startedBy = c]
                 /\ DialEnds(c, PipeConn(c), NoErr)
            ELSE /\ cmd' = [cmd EXCEPT ![npCmd].state = "failed"]
                 /\ DialEnds(c, PipeConn(c), Err("start"))
    /\ watchPc' = [watchPc EXCEPT ![c] = "start"]
    /\ UNCHANGED <<symVars, callers, facVars, crashed, callPc, op, addr, ctx, bgPc, connChan, errChan, ret,
                   httpVars, pipeCli, pipeSrv, watchCmd, npCmd, killedBy>>

\* The watcher calls n.Cmd.Wait() on whichever Cmd the field holds now.  Wait
\* fails at once on a Cmd that was not started or was already waited for;
\* otherwise it blocks until that process exits.
WatchCall(c) ==
    /\ Running
    /\ watchPc[c] = "start"
    /\ watchCmd' = [watchCmd EXCEPT ![c] = npCmd]
    /\ watchPc' = [watchPc EXCEPT ![c] =
            IF ProcessNil(npCmd) \/ cmd[npCmd].waited THEN "close" ELSE "waiting"]
    /\ UNCHANGED <<symVars, callers, facVars, crashed, callVars, httpVars, pipeCli, pipeSrv, npCmd, cmd,
                   killedBy>>

\* Wait returns: the process has exited.
WatchWaitReturn(c) ==
    /\ Running
    /\ watchPc[c] = "waiting"
    /\ cmd[watchCmd[c]].state = "exited"
    /\ cmd' = [cmd EXCEPT ![watchCmd[c]].waited = TRUE]
    /\ watchPc' = [watchPc EXCEPT ![c] = "close"]
    /\ UNCHANGED <<symVars, callers, facVars, crashed, callVars, httpVars, pipeCli, pipeSrv, watchCmd,
                   npCmd, killedBy>>

\* srv.Close()
WatchClose(c) ==
    /\ Running
    /\ watchPc[c] = "close"
    /\ pipeSrv' = [pipeSrv EXCEPT ![c] = "closed"]
    /\ watchPc' = [watchPc EXCEPT ![c] = "done"]
    /\ UNCHANGED <<symVars, callers, facVars, crashed, callVars, httpVars, pipeCli, watchCmd, npCmd, cmd,
                   killedBy>>

\* A started process exits by itself.
ProcExit(k) ==
    /\ Running
    /\ cmd[k].state = "running"
    /\ cmd' = [cmd EXCEPT ![k].state = "exited"]
    /\ UNCHANGED <<symVars, callers, facVars, crashed, callVars, httpVars, pipeCli, pipeSrv, watchPc,
                   watchCmd, npCmd, killedBy>>

\* case <-ctx.Done(): n.Cmd.Process.Kill(); return nil, ctx.Err().  A nil Cmd
\* or a nil Process panics; Kill on an exited process only returns an error.
NpSelectDone(c) ==
    /\ ctx[c] = "cancelled"
    /\ IF npCmd = 0 \/ ProcessNil(npCmd)
       THEN /\ crashed' = IF npCmd = 0 THEN "nilCmd" ELSE "nilProcess"
            /\ UNCHANGED <<cmd, killedBy, ret, callPc>>
       ELSE /\ cmd' = [cmd EXCEPT ![npCmd].state = "exited"]
            /\ killedBy' = [killedBy EXCEPT ![npCmd] =
                    IF cmd[npCmd].state = "running" THEN c ELSE @]
            /\ ret' = [ret EXCEPT ![c] = Result(NoConn, CtxErr)]
            /\ callPc' = [callPc EXCEPT ![c] = "returned"]
            /\ UNCHANGED crashed
    /\ UNCHANGED <<connChan, errChan>>

\* The select of NetPipe.DialContext.
NpSelect(c) ==
    /\ Running
    /\ callPc[c] = "npSelect"
    /\ \/ /\ (SelectConn(c) \/ SelectErr(c))
          /\ callPc' = [callPc EXCEPT ![c] = "returned"]
          /\ UNCHANGED <<crashed, cmd, killedBy>>
       \/ NpSelectDone(c)
    /\ UNCHANGED <<symVars, callers, facVars, op, addr, ctx, bgPc, dialPc, dialRes, httpVars, pipeCli,
                   pipeSrv, watchPc, watchCmd, npCmd>>

\* ------------------------------------------------------------ sftp symlink

\* The action is entered.  With other than two arguments it prints the usage
\* and returns; else it builds the target map, keeps the second argument in
\* target and makes the unbuffered channel exit.
SymEnter ==
    /\ symPc = "idle"
    /\ \E a \in ArgLists, tm \in SUBSET Servers :
        /\ args' = a
        /\ IF Len(a) # 2
           THEN /\ symPc' = "returned"
                /\ UNCHANGED <<targetmap, target>>
           ELSE /\ targetmap' = tm
                /\ target' = a[2]
                /\ symPc' = IF tm = {} THEN "wait" ELSE "spawn"
    /\ UNCHANGED <<dialVars, taskPc, source, linked, outcome, sent, received>>

\* One iteration of the range over targetmap: the task of one more server is
\* started, in whatever order the map yields them.
SymSpawn(s) ==
    /\ symPc = "spawn"
    /\ s \in targetmap
    /\ taskPc[s] = "none"
    /\ taskPc' = [taskPc EXCEPT ![s] = "expand"]
    /\ symPc' = IF \A o \in targetmap \ {s} : taskPc[o] # "none" THEN "wait" ELSE "spawn"
    /\ UNCHANGED <<dialVars, args, targetmap, target, source, linked, outcome, sent, received>>

\* The error branch returning without a send on exit.
TaskExpandNoSignal(s) ==
    /\ taskPc[s] = "expand"
    /\ \E r \in ExpandResults :
        IF r.err
        THEN /\ outcome' = [outcome EXCEPT ![s] = "expandErr"]
             /\ taskPc' = [taskPc EXCEPT ![s] = "done"]
             /\ UNCHANGED source
        ELSE /\ source' = [source EXCEPT ![s] =
                    IF IsAbs(r.first) THEN r.first ELSE Join(Pwd(s), r.first)]
             /\ taskPc' = [taskPc EXCEPT ![s] = "checkTarget"]
             /\ UNCHANGED outcome
    /\ UNCHANGED <<dialVars, args, targetmap, symPc, target, linked, sent, received>>

\* pList, err := ExpandRemotePath(...): on an error the task goes to its send
\* on exit; else source is pList[0], joined to client.Pwd unless absolute.
TaskExpand(s) ==
    /\ taskPc[s] = "expand"
    /\ \E r \in ExpandResults :
        IF r.err
        THEN /\ outcome' = [outcome EXCEPT ![s] = "expandErr"]
             /\ taskPc' = [taskPc EXCEPT ![s] = "send"]
             /\ UNCHANGED source
        ELSE /\ source' = [source EXCEPT ![s] =
                    IF IsAbs(r.first) THEN r.first ELSE Join(Pwd(s), r.first)]
             /\ taskPc' = [taskPc EXCEPT ![s] = "checkTarget"]
             /\ UNCHANGED outcome
    /\ UNCHANGED <<dialVars, args, targetmap, symPc, target, linked, sent, received>>

\* if !filepath.IsAbs(target): a read of the shared variable.
TaskCheckTarget(s) ==
    /\ taskPc[s] = "checkTarget"
    /\ taskPc' = [taskPc EXCEPT ![s] = IF IsAbs(target) THEN "symlink" ELSE "joinTarget"]
    /\ UNCHANGED <<dialVars, args, targetmap, symPc, target, source, linked, outcome, sent,
                   received>>

\* target = filepath.Join(client.Pwd, target): a read and a write of the
\* shared variable.
TaskJoinTarget(s) ==
    /\ taskPc[s] = "joinTarget"
    /\ target' = Join(Pwd(s), target)
    /\ taskPc' = [taskPc EXCEPT ![s] = "symlink"]
    /\ UNCHANGED <<dialVars, args, targetmap, symPc, source, linked, outcome, sent, received>>

\* err = client.Connect.Symlink(source, target), with target as it is now.
TaskSymlink(s) ==
    /\ taskPc[s] = "symlink"
    /\ linked' = [linked EXCEPT ![s] =
            [called |-> TRUE, source |-> source[s], target |-> target]]
    /\ \E ok \in BOOLEAN :
        outcome' = [outcome EXCEPT ![s] = IF ok THEN "ok" ELSE "symlinkErr"]
    /\ taskPc' = [taskPc EXCEPT ![s] = "send"]
    /\ UNCHANGED <<dialVars, args, targetmap, symPc, target, source, sent, received>>

\* exit <- true meets <-exit of the receive loop: the channel has no buffer,
\* so the send completes only with the action at a receive.
TaskSend(s) ==
    /\ taskPc[s] = "send"
    /\ symPc = "wait"
    /\ received < Cardinality(targetmap)
    /\ sent' = [sent EXCEPT ![s] = @ + 1]
    /\ received' = received + 1
    /\ taskPc' = [taskPc EXCEPT ![s] = "done"]
    /\ UNCHANGED <<dialVars, args, targetmap, symPc, target, source, linked, outcome>>

\* The receive loop has run len(targetmap) times: return nil.
SymReturn ==
    /\ symPc = "wait"
    /\ received = Cardinality(targetmap)
    /\ symPc' = "returned"
    /\ UNCHANGED <<dialVars, args, targetmap, target, taskPc, source, linked, outcome, sent,
                   received>>

\* -------------------------------------------------------------------- spec

\* The steps of the factory, the wrapper and the network dialers.
NetNext ==
    \/ CreateProxyDialer
    \/ \E c \in Calls :
        \/ CallDial(c)
        \/ CallDialContext(c)
        \/ Cancel(c)
        \/ DialerDial(c)
        \/ DialReturn(c)
        \/ BgDeliver(c)
        \/ Select(c)
        \/ HttpForward(c)
        \/ HttpParseTarget(c)
        \/ HttpNewRequest(c)
        \/ HttpWrite(c)
        \/ HttpReadResponse(c)
        \/ SocksDial(c)
        \/ SocksDialContext(c)

\* The steps of the command tunnel.
PipeNext ==
    \E c \in Calls :
        \/ NpPipe(c)
        \/ NpSetup(c)
        \/ NpStart(c)
        \/ WatchCall(c)
        \/ WatchWaitReturn(c)
        \/ WatchClose(c)
        \/ ProcExit(c)
        \/ NpSelect(c)

Next == NetNext \/ PipeNext

Spec == Init /\ [][Next]_vars

\* The goroutines of the program are scheduled fairly; the network, the
\* callers and the contexts owe nothing.
Fairness ==
    \A c \in Calls :
        /\ WF_vars(DialerDial(c))
        /\ WF_vars(DialReturn(c))
        /\ WF_vars(BgDeliver(c))
        /\ WF_vars(Select(c))

\* The factory alone, over every configuration.
FacSpec == Init /\ [][CreateProxyDialer]_vars

\* The network dialers behind the wrapper.
NetSpec == NetInit /\ [][NetNext]_vars

\* The same steps from the plain configurations, fairly scheduled.
FairNetSpec == PlainNetInit /\ [][NetNext]_vars /\ Fairness

\* Every variant behind the wrapper, one dial at a time.
VariantSpec == VariantInit /\ [][Next]_vars

\* The same, with the goroutines of the program fairly scheduled.
FairVariantSpec == VariantInit /\ [][Next]_vars /\ Fairness

\* The steps of the symlink command.
SymNext ==
    \/ SymEnter
    \/ SymReturn
    \/ \E s \in Servers :
        \/ SymSpawn(s)
        \/ TaskExpand(s)
        \/ TaskCheckTarget(s)
        \/ TaskJoinTarget(s)
        \/ TaskSymlink(s)
        \/ TaskSend(s)

\* One symlink command in the sftp shell.
SymSpec == SymInit /\ [][SymNext]_vars

\* ------------------------------------------------------------------ claims

RecognizedTypes == {"http", "https", "socks", "socks5", "command"}

IsHttp == facPc = "created" /\ wrapper.Dialer.kind = "httpProxy"
IsNetPipe == facPc = "created" /\ wrapper.Dialer.kind = "NetPipe"

\* C1: with an unrecognized Type, the first Dial or DialContext on the wrapper
\* CreateProxyDialer returned ends by returning an error to the caller, and the
\* program never crashes on the unset wrapped dialer.
C1_UnknownTypeFailsCleanly ==
    p.Type \notin RecognizedTypes =>
        /\ crashed = "none"
        /\ \A c \in Calls :
            callPc[c] = "returned" => ret[c].conn = NoConn /\ ret[c].err # NoErr

\* C2: in the HTTP CONNECT dial, every failure after the proxy socket was
\* opened leaves the socket closed when the error is returned, and an
\* unparsable response is such a failure: it never crashes the program.
C2_HttpFailureClosesSocket ==
    /\ crashed # "nilResp"
    /\ \A c \in Calls :
        (IsHttp /\ dialPc[c] = "done" /\ sock[c] # "none" /\ dialRes[c].err # NoErr) =>
            sock[c] = "closed" /\ dialRes[c].conn = NoConn

\* C3: the HTTP CONNECT dial returns a connection if and only if the parsed
\* response has status exactly 200; then the connection is the socket dialed to
\* the proxy, still open; with any other status the dial fails with an error
\* carrying that status and the socket is closed.
C3_ConnIffStatus200 ==
    \A c \in Calls :
        (IsHttp /\ dialPc[c] = "done") =>
            /\ (dialRes[c].conn # NoConn) <=> (resp[c].parsed /\ resp[c].StatusCode = 200)
            /\ dialRes[c].conn # NoConn =>
                /\ dialRes[c] = Result(SockConn(c), NoErr)
                /\ sock[c] = "open"
            /\ (resp[c].parsed /\ resp[c].StatusCode # 200) =>
                /\ dialRes[c] = Result(NoConn, StatusErr(resp[c].StatusCode))
                /\ sock[c] = "closed"

\* C3 witness: one HTTP CONNECT dial has returned its socket on status 200 and
\* another has failed on status 403.
C3_Witness ==
    \E c, d \in Calls :
        /\ IsHttp
        /\ callPc[c] = "returned" /\ resp[c].StatusCode = 200 /\ ret[c].conn = SockConn(c)
        /\ callPc[d] = "returned" /\ resp[d].StatusCode = 403
        /\ ret[d].err = StatusErr(403)

\* C4: CreateSocks5ProxyDialer never crashes, whatever User and Password are,
\* and the SOCKS5 client gets an authentication holding (User, Password)
\* exactly when both are non-empty.
C4_Socks5AuthGating ==
    /\ crashed # "nilAuth"
    /\ (facPc = "created" /\ wrapper.Dialer.kind = "socks5") =>
        /\ wrapper.Dialer.auth.set <=> (p.User # Empty /\ p.Password # Empty)
        /\ wrapper.Dialer.auth.set =>
            /\ wrapper.Dialer.auth.User = p.User
            /\ wrapper.Dialer.auth.Password = p.Password

\* C5: the select of ContextDialer.DialContext returns what the blocking dial
\* returned when that dial is complete and the context is not cancelled, and
\* the context's error when the context is cancelled and the dial is still
\* pending; once the dial has completed or the context is cancelled, the call
\* returns (or the program has ended).  When both have happened before the
\* select runs, either case may be taken.
C5_SelectOutcome ==
    [][\A c \in Calls :
        (callPc[c] = "select" /\ callPc'[c] = "returned") =>
            /\ (dialPc[c] = "done" /\ ctx[c] = "live") => ret'[c] = dialRes[c]
            /\ (dialPc[c] # "done" /\ ctx[c] = "cancelled") =>
                    ret'[c] = Result(NoConn, CtxErr)]_vars

C5_NeverStuck ==
    \A c \in Calls :
        (callPc[c] = "select" /\ (dialPc[c] = "done" \/ ctx[c] = "cancelled"))
            ~> (callPc[c] = "returned" \/ ~Running)

C5_FallbackRace == C5_SelectOutcome /\ C5_NeverStuck

\* C5 witness: one cancellable HTTP dial returned the context's error while its
\* blocking dial was still pending, another returned its dial's connection.
C5_Witness ==
    \E c, d \in Calls :
        /\ IsHttp
        /\ op[c] = "DialContext" /\ callPc[c] = "returned"
        /\ ret[c] = Result(NoConn, CtxErr) /\ dialPc[c] \notin {"done", "none"}
        /\ op[d] = "DialContext" /\ callPc[d] = "returned"
        /\ ret[d] = Result(SockConn(d), NoErr) /\ ctx[d] = "live"

\* C6: when cancellation wins the race of NetPipe.DialContext the call returns
\* the context's error without crashing, whatever the state of the process,
\* and once its background dial is over every process that dial spawned has
\* been terminated.
C6_CancelledTunnelDial ==
    /\ crashed \notin {"nilCmd", "nilProcess"}
    /\ \A c \in Calls :
        (IsNetPipe /\ op[c] = "DialContext" /\ callPc[c] = "returned"
            /\ ret[c].err = CtxErr /\ bgPc[c] = "done") =>
                \A k \in Calls : cmd[k].startedBy = c => cmd[k].state = "exited"

Pending(c) == callPc[c] \notin {"idle", "returned"}

\* C7: while two dials on the same command tunnel dialer are both in flight,
\* each starts the Cmd it created, wired to its own pipe, and the watcher and
\* the cancellation handler of one never wait on or kill the other's Cmd.
C7_IndependentDials ==
    [][\A c, d \in Calls :
        (c # d /\ Pending(c) /\ Pending(d)) =>
            /\ cmd'[d].startedBy # c
            /\ cmd'[d].stdio # c
            /\ watchCmd'[c] # d
            /\ killedBy'[d] # c]_vars

\* C8: when the command of a command tunnel dial fails to start, the dial
\* returns an error and, once the dial and its watcher are over, both ends of
\* the pipe made for that dial are closed.
C8_FailedStartLeavesNoPipe ==
    \A c \in Calls :
        (IsNetPipe /\ dialPc[c] = "done" /\ dialRes[c].err = Err("start")
            /\ callPc[c] = "returned" /\ watchPc[c] = "done" /\ bgPc[c] # "run") =>
                /\ ret[c].err # NoErr
                /\ pipeCli[c] = "closed"
                /\ pipeSrv[c] = "closed"

\* C9: every dial operation, of the wrapper and of the dialer it wraps, returns
\* exactly one of a connection and an error.
C9_ConnXorErr ==
    \A c \in Calls :
        /\ callPc[c] = "returned" => (ret[c].conn = NoConn) # (ret[c].err = NoErr)
        /\ dialPc[c] = "done" => (dialRes[c].conn = NoConn) # (dialRes[c].err = NoErr)

\* C10: what CreateProxyDialer returns is the ContextDialer around the one
\* variant its Type names: http and https the HTTP CONNECT dialer, socks and
\* socks5 the SOCKS5 adapter, command the NetPipe bound to the Command string.
C10_VariantByType ==
    facPc = "created" =>
        /\ wrapper.wrapper = "ContextDialer"
        /\ p.Type \in {"http", "https"} => wrapper.Dialer.kind = "httpProxy"
        /\ p.Type \in {"socks", "socks5"} => wrapper.Dialer.kind = "socks5"
        /\ p.Type = "command" =>
            wrapper.Dialer = [kind |-> "NetPipe", Command |-> p.Command]

\* C10 witness: a command configuration has been turned into its dialer.
C10_Witness ==
    /\ facPc = "created"
    /\ p.Type = "command"
    /\ p.Command = "nc %h %p"
    /\ wrapper.Dialer.kind = "NetPipe"

\* The address parts of a network configuration that no proxy address can be
\* made of: a host with a character url.Parse rejects, or a port that is not a
\* number.
MalformedAddress(q) ==
    /\ q.Type \in {"http", "https", "socks", "socks5"}
    /\ \/ Toks(q.Addr) \cap InvalidInHost # {}
       \/ ~(Toks(q.Port) \subseteq Numeric)

\* C11: whenever the Type is unrecognized or the proxy address composed from
\* the configuration is malformed, CreateProxyDialer does not crash and the
\* error it returns is not nil.
C11_ConfigErrorAtConstruction ==
    (p.Type \notin RecognizedTypes \/ MalformedAddress(p)) =>
        /\ crashed = "none"
        /\ facPc = "created" => createErr # "none"

\* C12: the connection to the proxy, of the HTTP CONNECT dialer and of the
\* SOCKS5 adapter alike, is made by the configured Forwarder whenever one is
\* set and by the direct dialer only when none is; a socket to the proxy is
\* never opened by anything else.
C12_ForwarderReachesProxy ==
    \A c \in Calls :
        /\ sock[c] # "none" => fwdUsed[c] # "none"
        /\ fwdUsed[c] # "none" =>
            /\ wrapper.Dialer.kind \in {"httpProxy", "socks5"}
            /\ p.Forwarder => fwdUsed[c] = "Forwarder"
            /\ ~p.Forwarder => fwdUsed[c] = "Direct"

\* C12 witness: with a Forwarder configured, a dial has opened its socket to
\* the proxy through it.
C12_Witness ==
    \E c \in Calls :
        /\ p.Forwarder
        /\ wrapper.Dialer.kind \in {"httpProxy", "socks5"}
        /\ sock[c] = "open"
        /\ fwdUsed[c] = "Forwarder"

\* C13: every CONNECT request an HTTP CONNECT dialer writes carries the
\* User-Agent, and carries Basic authentication, built from the configured
\* (User, Password), if and only if both are non-empty; with either of them
\* empty the proxy URI holds no credentials.
C13_BasicAuthIffBoth ==
    \A c \in Calls :
        (IsHttp /\ wire[c].method = "CONNECT") =>
            /\ wire[c].userAgent = "Poweredby Golang"
            /\ wire[c].auth.set <=> (p.User # Empty /\ p.Password # Empty)
            /\ wire[c].auth.set =>
                /\ wire[c].auth.User = p.User
                /\ wire[c].auth.Password = p.Password
            /\ (p.User = Empty \/ p.Password = Empty) => "@" \notin Toks(ProxyURL(p))

\* The processes the Start of dial c spawned.
SpawnedBy(c) == {k \in Calls : cmd[k].startedBy = c}

\* C14: the server end of the pipe of a command tunnel dial is closed only
\* after the process that dial spawned has exited: in no state is it closed
\* while a process started by that dial is still running.
C14_SrvClosedOnlyAfterExit ==
    \A c \in Calls :
        pipeSrv[c] = "closed" => \A k \in SpawnedBy(c) : cmd[k].state # "running"

\* The exit watcher of dial c has a step to take.
WatcherCanStep(c) == ENABLED (WatchCall(c) \/ WatchWaitReturn(c) \/ WatchClose(c))

\* C15: after a successful command tunnel dial, once the process it spawned
\* has exited the watcher of that dial closes the server end of its pipe: as
\* long as the program runs and the server end is still open, the watcher is
\* not blocked.
C15_ExitClosesSrv ==
    \A c \in Calls :
        (/\ Running /\ IsNetPipe
         /\ dialPc[c] = "done" /\ dialRes[c].err = NoErr
         /\ SpawnedBy(c) # {}
         /\ \A k \in SpawnedBy(c) : cmd[k].state = "exited"
         /\ pipeSrv[c] # "closed") =>
            WatcherCanStep(c)

\* C16: when the wrapped dialer has a DialContext of its own (the SOCKS5 client
\* and the NetPipe), ContextDialer.DialContext delegates to it: the call never
\* enters the wrapper's select, the wrapper starts no goroutine (the only
\* goroutine started is the one of NetPipe.DialContext, feeding NetPipe's own
\* select), and what the call returns is what the native method returned.
C16_NativeDelegation ==
    [][\A c \in Calls :
        (facPc = "created" /\ wrapper.Dialer.kind \in {"socks5", "NetPipe"}
            /\ op'[c] = "DialContext") =>
            /\ callPc'[c] # "select"
            /\ (bgPc[c] = "none" /\ bgPc'[c] # "none") =>
                    wrapper.Dialer.kind = "NetPipe" /\ callPc'[c] = "npSelect"
            /\ (callPc[c] # "returned" /\ callPc'[c] = "returned") =>
                    callPc[c] = IF wrapper.Dialer.kind = "socks5" THEN "native" ELSE "npSelect"]_vars

\* C16 witness: a cancellable dial has returned through the native DialContext
\* of the wrapped dialer.
C16_Witness ==
    \E c \in Calls :
        /\ wrapper.Dialer.kind \in {"socks5", "NetPipe"}
        /\ op[c] = "DialContext"
        /\ callPc[c] = "returned"
        /\ ret[c].conn # NoConn

\* The goroutine of a race-based DialContext holds the result of its blocking
\* dial and has not sent it yet.
HoldsResult(c) == Running /\ bgPc[c] = "run" /\ dialPc[c] = "done"

\* C17: in the race of ContextDialer.DialContext and in the one of
\* NetPipe.DialContext, once the blocking dial has returned the goroutine's
\* send of the result is never blocked, whether or not the caller has already
\* returned on cancellation, and the goroutine then ends (or the program has).
C17_BackgroundTaskEnds ==
    /\ [](\A c \in Calls : HoldsResult(c) => ENABLED BgDeliver(c))
    /\ \A c \in Calls : HoldsResult(c) ~> (bgPc[c] = "done" \/ ~Running)

\* C17 witness: the caller returned the context's error, and the goroutine has
\* since ended, leaving the result of its dial in the channel's buffer.
C17_Witness ==
    \E c \in Calls :
        /\ op[c] = "DialContext"
        /\ callPc[c] = "returned" /\ ret[c] = Result(NoConn, CtxErr)
        /\ bgPc[c] = "done"
        /\ (connChan[c] # << >> \/ errChan[c] # << >>)

\* C18: the link name every server's Symlink call gets is the second argument
\* itself when that is absolute, and else that argument joined to the working
\* directory of that same server, whatever the other servers' directories and
\* the order of the tasks.
C18_TargetOfOwnServer ==
    \A s \in Servers :
        linked[s].called =>
            linked[s].target = IF IsAbs(args[2]) THEN args[2] ELSE Join(Pwd(s), args[2])

\* C19: every task started sends exactly one value on exit, whether path
\* expansion failed, Symlink failed or all went well; the action returns only
\* when the task of every server in the target map has sent its value and
\* ended; until then some step can always be taken; and with other than two
\* arguments no task is started and no Symlink is called.
C19_OneSignalPerTask ==
    /\ \A s \in Servers :
        /\ sent[s] <= 1
        /\ taskPc[s] = "done" => sent[s] = 1 /\ outcome[s] # "none"
        /\ s \notin targetmap => taskPc[s] = "none"
    /\ received <= Cardinality(targetmap)
    /\ (symPc = "returned" /\ Len(args) = 2) =>
            \A s \in targetmap : taskPc[s] = "done" /\ sent[s] = 1
    /\ symPc \in {"spawn", "wait"} => ENABLED SymNext
    /\ (symPc = "returned" /\ Len(args) # 2) =>
            \A s \in Servers : taskPc[s] = "none" /\ ~linked[s].called

\* C19 witness: the action has returned after the tasks of all servers ended,
\* one on a path expansion error and one after a successful Symlink.
C19_Witness ==
    /\ symPc = "returned"
    /\ targetmap = Servers
    /\ \E s, o \in Servers :
        /\ outcome[s] = "expandErr" /\ sent[s] = 1
        /\ outcome[o] = "ok" /\ sent[o] = 1 /\ linked[o].called

====
